---- MODULE Spec2Model ----
(***************************************************************************)
(* Model of the L2-to-L3 ARP mapper (src/connector.py, src/main.py):       *)
(* NetworkConnector.collect_mac_addresses builds the MAC table from the    *)
(* L2 devices, NetworkConnector.map_mac_to_ip correlates it with the ARP   *)
(* tables (or, in VXLAN mode, the EVPN bindings) of the L3 devices.        *)
(*                                                                         *)
(* A Python str is a sequence of one-character strings, so that lower(),   *)
(* replace(), split() and the "in" substring test are computed character   *)
(* by character.  None and "" are both the empty sequence: the code only   *)
(* ever tests these values for truthiness ("if not mac", "port or ...").   *)
(* A Python dict is a sequence of records in insertion order; assigning to *)
(* an existing key keeps the key's position.                               *)
(***************************************************************************)
EXTENDS Integers, Sequences, FiniteSets, TLC

(***************************************************************************)
(* Bounds of the model.                                                    *)
(***************************************************************************)
\* records the template engine returns for one device
MaxRecords == 2

\* tokens of a line handed to parse_evpn_output
MaxTokens == 5

(***************************************************************************)
(* str methods.                                                            *)
(***************************************************************************)
\* the lower-case letter of each upper-case letter
LowerCase ==
    [A |-> "a", B |-> "b", C |-> "c", D |-> "d", E |-> "e", F |-> "f", G |-> "g",
     H |-> "h", I |-> "i", J |-> "j", K |-> "k", L |-> "l", M |-> "m", N |-> "n",
     O |-> "o", P |-> "p", Q |-> "q", R |-> "r", S |-> "s", T |-> "t", U |-> "u",
     V |-> "v", W |-> "w", X |-> "x", Y |-> "y", Z |-> "z"]

\* one character of str.lower()
LowerChar(c) == IF c \in DOMAIN LowerCase THEN LowerCase[c] ELSE c

\* s.lower()
ToLower(s) == [k \in 1..Len(s) |-> LowerChar(s[k])]

\* c in s, for a single character c
HasChar(s, c) == \E k \in 1..Len(s) : s[k] = c

\* sub in s
Contains(s, sub) ==
    \E k \in 0..(Len(s) - Len(sub)) : \A j \in 1..Len(sub) : s[k + j] = sub[j]

\* s.replace(c, '')
Remove(s, c) == SelectSeq(s, LAMBDA x : x # c)

\* the k-th smallest element of a set of integers
Nth(S, k) == CHOOSE x \in S : Cardinality({y \in S : y <= x}) = k

\* s.split() and s.splitlines(): the maximal runs of characters outside seps
\* (splitlines also yields the empty lines, which hold no token)
Split(s, seps) ==
    LET Starts == {k \in 1..Len(s) :
                      s[k] \notin seps /\ (k = 1 \/ s[k - 1] \in seps)}
        End(k) == CHOOSE e \in k..Len(s) :
                      /\ \A m \in k..e : s[m] \notin seps
                      /\ (e = Len(s) \/ s[e + 1] \in seps)
    IN  [n \in 1..Cardinality(Starts) |->
            SubSeq(s, Nth(Starts, n), End(Nth(Starts, n)))]

\* s.split(c): the fields between the occurrences of c, empty ones included
SplitKeep(s, c) ==
    LET Cuts == {k \in 1..Len(s) : s[k] = c} \cup {0, Len(s) + 1}
    IN  [n \in 1..(Cardinality(Cuts) - 1) |->
            SubSeq(s, Nth(Cuts, n) + 1, Nth(Cuts, n + 1) - 1)]

Digits == <<"0","1","2","3","4","5","6","7","8","9">>
IsDigit(c) == \E k \in 1..Len(Digits) : Digits[k] = c
DigitVal(c) == (CHOOSE k \in 1..Len(Digits) : Digits[k] = c) - 1

\* int(s): [ok |-> FALSE] stands for ValueError
ParseInt(s) ==
    LET signed == Len(s) > 0 /\ s[1] \in {"+", "-"}
        body   == IF signed THEN Tail(s) ELSE s
        V[k \in 0..Len(body)] ==
            IF k = 0 THEN 0 ELSE 10 * V[k - 1] + DigitVal(body[k])
    IN  IF Len(body) = 0 \/ \E k \in 1..Len(body) : ~IsDigit(body[k])
        THEN [ok |-> FALSE, val |-> 0]
        ELSE [ok |-> TRUE,
              val |-> IF signed /\ s[1] = "-" THEN 0 - V[Len(body)] ELSE V[Len(body)]]

\* text of the given tokens joined by sep
Join(tokens, sep) ==
    LET F[k \in 0..Len(tokens)] ==
            IF k = 0 THEN <<>>
            ELSE IF k = 1 THEN tokens[1]
            ELSE F[k - 1] \o <<sep>> \o tokens[k]
    IN  F[Len(tokens)]

(***************************************************************************)
(* Literals of the code.                                                   *)
(***************************************************************************)
None    == <<>>
Unknown == <<"u","n","k","n","o","w","n">>
Colon   == ":"
Dot     == "."

\* the characters of '0123456789abcdefABCDEF.:'
HexOrSep == {"0","1","2","3","4","5","6","7","8","9","a","b","c","d","e","f",
             "A","B","C","D","E","F",".",":"}

\* ['dynamic', 'static', 'learned']
ReservedWords == {<<"d","y","n","a","m","i","c">>, <<"s","t","a","t","i","c">>,
                  <<"l","e","a","r","n","e","d">>}

\* ['gi', 'fa', 'eth', 'po', 'vlan', 'te', 'port']
PortPrefixes == {<<"g","i">>, <<"f","a">>, <<"e","t","h">>, <<"p","o">>,
                 <<"v","l","a","n">>, <<"t","e">>, <<"p","o","r","t">>}

KwMac       == <<"m","a","c">>
KwMacIp     == <<"m","a","c","-","i","p">>
KwAddress   == <<"a","d","d","r","e","s","s">>
KwVlan      == <<"v","l","a","n">>
KwEvpn      == <<"e","v","p","n">>
KwBgp       == <<"b","g","p">>
KwIp        == <<"i","p">>
KwAge       == <<"a","g","e">>
KwInterface == <<"i","n","t","e","r","f","a","c","e">>

\* the candidate commands of get_mac_address_table
mac_commands(vx) ==
    IF vx
    THEN << "show mac address-table vlan all",
            "show mac address-table vlan 1",
            "show mac address-table",
            "show mac address" >>
    ELSE << "show mac address-table",
            "show mac-address-table",
            "show mac addr",
            "show mac address-table dynamic",
            "show mac address-table vlan 1",
            "show mac address",
            "show mac" >>

\* the candidate commands of get_evpn_mac_ip_bindings
evpn_commands ==
    << "show bgp l2vpn evpn",
       "show bgp l2vpn evpn | grep -i mac",
       "show bgp l2vpn evpn mac",
       "show bgp l2vpn evpn mac-ip" >>

\* the candidate commands of get_arp_table
arp_commands ==
    << "show ip arp",
       "show arp",
       "show ip arp | exclude Incomplete",
       "show ip arp vrf all",
       "show ip arp detail",
       "show arp" >>

(***************************************************************************)
(* The checks a probe makes on the output of a command.                    *)
(***************************************************************************)
\* the length an accepted output must exceed
MinOutputLen == 100

\* LooksLikeMacTable without the lower(): keywords are matched case-sensitively
LooksLikeMacTable_CaseSensitive(output) ==
    /\ Len(output) > MinOutputLen
    /\ \/ Contains(output, KwMac)
       \/ Contains(output, KwAddress)
       \/ Contains(output, KwVlan)

\* get_mac_address_table: the output looks like a MAC address table
LooksLikeMacTable(output) ==
    /\ Len(output) > MinOutputLen
    /\ LET lower == ToLower(output)
       IN  \/ Contains(lower, KwMac)
           \/ Contains(lower, KwAddress)
           \/ Contains(lower, KwVlan)

\* get_evpn_mac_ip_bindings: the output looks like EVPN data
LooksLikeEvpn(output) ==
    /\ Len(output) > MinOutputLen
    /\ LET lower == ToLower(output)
       IN  \E term \in {KwMac, KwEvpn, KwBgp} : Contains(lower, term)

\* get_arp_table: the output looks like an ARP table
LooksLikeArpTable(output) ==
    /\ Len(output) > MinOutputLen
    /\ LET lower == ToLower(output)
       IN  \E term \in {KwIp, KwAddress, KwMac, KwAge, KwInterface} :
               Contains(lower, term)

(***************************************************************************)
(* dict, as a sequence of records keyed by their mac field.                *)
(***************************************************************************)
HasKey(d, k) == \E n \in 1..Len(d) : d[n].mac = k

Get(d, k) == d[CHOOSE n \in 1..Len(d) : d[n].mac = k]

\* d[rec.mac] = rec
Put(d, rec) ==
    IF HasKey(d, rec.mac)
    THEN [n \in 1..Len(d) |-> IF d[n].mac = rec.mac THEN rec ELSE d[n]]
    ELSE Append(d, rec)

Keys(d) == {d[n].mac : n \in 1..Len(d)}

(***************************************************************************)
(* parse_evpn_output and is_valid_ip.                                      *)
(***************************************************************************)
is_valid_ip(ip_str) ==
    LET parts == SplitKeep(ip_str, Dot)
    IN  /\ Len(parts) = 4
        /\ \A k \in 1..4 :
              /\ ParseInt(parts[k]).ok
              /\ 0 <= ParseInt(parts[k]).val
              /\ ParseInt(parts[k]).val <= 255

\* EvpnLine with the scan of the line ending at the first binding
EvpnLine_StopAtFirst(bindings, line) ==
    LET parts == Split(line, {" ", "\t"})
        n     == Len(parts)
        Lo(i) == IF i - 3 < 1 THEN 1 ELSE i - 3
        Hi(i) == IF i + 3 > n THEN n ELSE i + 3
        Hit(i) == /\ HasChar(parts[i], Colon) \/ HasChar(parts[i], Dot)
                  /\ \E j \in Lo(i)..Hi(i) : is_valid_ip(parts[j])
    IN  IF /\ Contains(ToLower(line), KwMacIp) \/ Contains(ToLower(line), KwMac)
           /\ \E i \in 1..n : Hit(i)
        THEN LET i == CHOOSE i \in 1..n : Hit(i) /\ \A m \in 1..(i - 1) : ~Hit(m)
                 j == CHOOSE j \in Lo(i)..Hi(i) :
                          /\ is_valid_ip(parts[j])
                          /\ \A m \in Lo(i)..(j - 1) : ~is_valid_ip(parts[m])
             IN  Put(bindings, [mac |-> ToLower(parts[i]), ip |-> parts[j]])
        ELSE bindings

\* the bindings one line adds: every part holding ':' or '.' is taken as a MAC
\* and bound to the first valid IP among parts[i-3 .. i+3]
EvpnLine(bindings, line) ==
    LET parts == Split(line, {" ", "\t"})
        n     == Len(parts)
        Lo(i) == IF i - 3 < 1 THEN 1 ELSE i - 3
        Hi(i) == IF i + 3 > n THEN n ELSE i + 3
        F[i \in 0..n] ==
            IF i = 0 THEN bindings
            ELSE IF /\ HasChar(parts[i], Colon) \/ HasChar(parts[i], Dot)
                    /\ \E j \in Lo(i)..Hi(i) : is_valid_ip(parts[j])
                 THEN LET j == CHOOSE j \in Lo(i)..Hi(i) :
                                  /\ is_valid_ip(parts[j])
                                  /\ \A m \in Lo(i)..(j - 1) : ~is_valid_ip(parts[m])
                      IN  Put(F[i - 1], [mac |-> ToLower(parts[i]), ip |-> parts[j]])
                 ELSE F[i - 1]
    IN  IF Contains(ToLower(line), KwMacIp) \/ Contains(ToLower(line), KwMac)
        THEN F[n]
        ELSE bindings

parse_evpn_output(output) ==
    LET lines == Split(output, {"\n"})
        F[k \in 0..Len(lines)] ==
            IF k = 0 THEN <<>> ELSE EvpnLine(F[k - 1], lines[k])
    IN  F[Len(lines)]

(***************************************************************************)
(* collect_mac_addresses: one record of the parsed MAC address table.      *)
(***************************************************************************)
\* LooksLikeMac without the test of the length and the characters
LooksLikeMac_SeparatorOnly(field) ==
    /\ field # <<>>
    /\ HasChar(field, Colon) \/ HasChar(field, Dot)

\* the test of the fallback for a field that holds a MAC address
LooksLikeMac(field) ==
    /\ field # <<>>
    /\ \/ HasChar(field, Colon)
       \/ HasChar(field, Dot)
       \/ /\ Len(field) \in {12, 14, 17}
          /\ \A k \in 1..Len(field) : field[k] \in HexOrSep

\* the test of the fallback for a field that holds a port
LooksLikePort(port_field) ==
    /\ port_field # <<>>
    /\ ToLower(port_field) \notin ReservedWords
    /\ \E prefix \in PortPrefixes : Contains(ToLower(port_field), prefix)

\* the fields (mac, port, vlan) the code reads from one record
EntryFields(entry) ==
    LET fixed == Len(entry) >= 7
        vlan  == IF fixed THEN entry[1] ELSE None
        mac0  == IF fixed THEN entry[2] ELSE None
        port0 == IF fixed THEN entry[7] ELSE None
        found == \E i \in 1..Len(entry) : LooksLikeMac(entry[i])
        i     == CHOOSE i \in 1..Len(entry) :
                     /\ LooksLikeMac(entry[i])
                     /\ \A m \in 1..(i - 1) : ~LooksLikeMac(entry[m])
        Ports == {j \in 1..Len(entry) : j # i /\ LooksLikePort(entry[j])}
        j     == CHOOSE j \in Ports : \A m \in Ports : j <= m
    IN  IF mac0 # <<>>
        THEN [mac |-> mac0, port |-> port0, vlan |-> vlan]
        ELSE IF found
        THEN [mac |-> entry[i],
              port |-> IF Ports # {} THEN entry[j] ELSE port0,
              vlan |-> vlan]
        ELSE [mac |-> None, port |-> port0, vlan |-> vlan]

\* Overwrites with the last record always winning
Overwrites_LastWins(table, mac, port) == TRUE

\* whether the record replaces (or creates) the entry of its MAC
Overwrites(table, mac, port) ==
    ~HasKey(table, mac) \/ (port # <<>> /\ port # Unknown)

\* the MAC table after one record of device hostname
ProcessEntry(table, entry, hostname) ==
    LET f   == EntryFields(entry)
        mac == ToLower(f.mac)
    IN  IF f.mac # <<>> /\ Overwrites(table, mac, f.port)
        THEN Put(table, [mac    |-> mac,
                         port   |-> IF f.port # <<>> THEN f.port ELSE Unknown,
                         device |-> hostname,
                         vlan   |-> IF f.vlan # <<>> THEN f.vlan ELSE Unknown])
        ELSE table

(***************************************************************************)
(* map_mac_to_ip: one binding.                                             *)
(***************************************************************************)
\* mac.replace(':', '').replace('.', '')
Normalize(mac) == Remove(Remove(mac, Colon), Dot)

\* the (ip, mac) the ARP branch reads from one record
ArpFields(entry) ==
    IF Len(entry) >= 3
    THEN [ip  |-> entry[1],
          mac |-> IF HasChar(entry[3], Colon) \/ HasChar(entry[3], Dot)
                  THEN ToLower(entry[3])
                  ELSE IF HasChar(entry[2], Colon) \/ HasChar(entry[2], Dot)
                  THEN ToLower(entry[2])
                  ELSE None]
    ELSE [ip |-> None, mac |-> None]

\* the binding's MAC matches a key of the MAC table
Matches(mac, stored_mac) ==
    mac = stored_mac \/ Normalize(mac) = Normalize(stored_mac)

\* Correlate without the break: every matching key gets a record
Correlate_EveryMatch(result, table, mac, ip) ==
    LET F[n \in 0..Len(table)] ==
            IF n = 0 THEN result
            ELSE IF mac = table[n].mac \/ Normalize(mac) = Normalize(table[n].mac)
            THEN Put(F[n - 1], [mac |-> table[n].mac, port |-> table[n].port,
                                device |-> table[n].device,
                                vlan |-> table[n].vlan, ip |-> ip])
            ELSE F[n - 1]
    IN  F[Len(table)]

\* Correlate with the record keyed by the binding's spelling of the MAC
Correlate_BindingKey(result, table, mac, ip) ==
    IF \E n \in 1..Len(table) : Matches(mac, table[n].mac)
    THEN LET n == CHOOSE n \in 1..Len(table) :
                      /\ Matches(mac, table[n].mac)
                      /\ \A m \in 1..(n - 1) : ~Matches(mac, table[m].mac)
             e == table[n]
         IN  Put(result, [mac |-> mac, port |-> e.port, device |-> e.device,
                          vlan |-> e.vlan, ip |-> ip])
    ELSE result

\* mac_to_ip after the binding (mac, ip): the first matching key of the MAC
\* table, in the table's order, gets the binding's IP
Correlate(result, table, mac, ip) ==
    IF \E n \in 1..Len(table) : Matches(mac, table[n].mac)
    THEN LET n == CHOOSE n \in 1..Len(table) :
                      /\ Matches(mac, table[n].mac)
                      /\ \A m \in 1..(n - 1) : ~Matches(mac, table[m].mac)
             e == table[n]
         IN  Put(result, [mac |-> e.mac, port |-> e.port, device |-> e.device,
                          vlan |-> e.vlan, ip |-> ip])
    ELSE result

\* mac_to_ip after one record of the parsed ARP table
ProcessArpEntry(result, table, entry) ==
    LET f == ArpFields(entry)
    IN  IF f.ip # <<>> /\ f.mac # <<>>
        THEN Correlate(result, table, f.mac, f.ip)
        ELSE result

(***************************************************************************)
(* Inputs: the host lists, and what the devices and the template engine    *)
(* may return.                                                             *)
(***************************************************************************)
L2Hosts == <<"sw1", "sw2">>
L3Hosts == <<"rt1", "rt2">>

MacColon  == <<"a","a",":","b","b",":","c","c",":","d","d",":","e","e",":","f","f">>
MacColonU == <<"A","A",":","B","B",":","C","C",":","D","D",":","E","E",":","F","F">>
MacDot    == <<"a","a","b","b",".","c","c","d","d",".","e","e","f","f">>
MacDotU   == <<"A","A","B","B",".","C","C","D","D",".","E","E","F","F">>
MacBare   == <<"a","a","b","b","c","c","d","d","e","e","f","f">>
MacOther  == <<"0","0","1","1",".","2","2","3","3",".","4","4","5","5">>
MacEvpn   == <<"a","a","b","b",".","b","b","c","c",".","c","c","d","d">>
Gi01      == <<"G","i","0","/","1">>
Gi02      == <<"G","i","0","/","2">>
Gi101     == <<"G","i","1","/","0","/","1">>
Dynamic   == <<"d","y","n","a","m","i","c">>
Ip5       == <<"1","0",".","0",".","0",".","5">>
Ip7       == <<"1","0",".","0",".","0",".","7">>
Ip9       == <<"1","0",".","0",".","0",".","9">>

\* a row of the 7-field template: VLAN_ID, MAC_ADDRESS, TYPE, AGE, SECURE, NTFY, PORTS
Row7(vlan, mac, port) == <<vlan, mac, Dynamic, <<"0">>, <<"F">>, <<"F">>, port>>

\* the records parse_with_textfsm may return for a MAC address table
MacRecords ==
    { Row7(<<"1","0">>, MacColon, Gi01),
      Row7(<<"1","0">>, MacDotU, <<>>),
      << <<"1">>, MacDot, Dynamic, Gi01 >>,
      << <<"1">>, MacColon, Dynamic, Gi02 >>,
      << MacColonU, Dynamic >>,
      << MacBare, Gi02 >>,
      << <<"T","o","t","a","l">>, <<"2">> >>,
      << <<"1">>, MacDot, Dynamic, Gi101 >>,
      << Gi02, Ip5, MacDot >> }

\* the records parse_with_textfsm may return for an ARP table
ArpRecords ==
    { << Ip5, <<"0","0">>, MacDot >>,
      << Ip9, <<"0","0">>, MacColonU >>,
      << Ip7, MacBare, <<"0","0">> >>,
      << Ip7, <<"0","0">>, MacOther >>,
      << Ip5, MacDot >> }

\* a line of n dashes
Rule(n) == [k \in 1..n |-> "-"]

\* a line of "show bgp l2vpn evpn" that binds mac to ip
EvpnRow(mac, ip) ==
    Join(<< <<"R","o","u","t","e">>,
            <<"D","i","s","t","i","n","g","u","i","s","h","e","r">>,
            <<"1",":","1">>, <<"m","a","c","-","i","p">>, mac, ip, Gi02 >>, " ")

EvpnHeader ==
    <<"B","G","P"," ","r","o","u","t","i","n","g"," ","t","a","b","l","e"," ",
      "i","n","f","o","r","m","a","t","i","o","n">>

\* the EVPN outputs a device may return
EvpnOutputs ==
    { Join(<<EvpnHeader, Rule(50), EvpnRow(MacDot, Ip5)>>, "\n"),
      Join(<<EvpnHeader, EvpnRow(MacColonU, Ip9), EvpnRow(MacEvpn, Ip9)>>, "\n"),
      Join(<<EvpnHeader, EvpnRow(MacDot, Ip5), EvpnRow(MacColon, Ip7)>>, "\n") }

\* the other outputs a device may return for a command
PlainOutputs ==
    { <<>>,
      Join(<< <<"M","a","c">>, Rule(46) >>, " "),
      Join(<< <<"M","a","c">>, Rule(MinOutputLen - 4) >>, " "),
      Join(<< <<"M","a","c">>, <<"A","d","d","r","e","s","s">>,
              <<"T","a","b","l","e">>, Rule(MinOutputLen) >>, " "),
      Join(<< <<"V","L","A","N">>, Rule(MinOutputLen - 4) >>, " "),
      Join(<< <<"A","g","e">>, Rule(MinOutputLen - 3) >>, " "),
      Join(<< <<"B","G","P">>, Rule(MinOutputLen - 3) >>, " "),
      Join(<< <<"E","r","r","o","r">>, Rule(MinOutputLen) >>, " ") }

\* send_command raises instead of returning an output
Raised == <<"raised">>

\* what one send_command may do
SendResults     == PlainOutputs \cup {Raised}
EvpnSendResults == PlainOutputs \cup EvpnOutputs \cup {Raised}

\* what connect() may meet: the session comes up, or the connection times
\* out (NetMikoTimeoutException), is refused (NetMikoAuthenticationException)
\* or fails otherwise (Exception), which leaves no session
ConnectResults == {"ok", "timeout", "auth", "error"}

(***************************************************************************)
(* State.                                                                  *)
(***************************************************************************)
VARIABLES
    pc,                  \* where main() is
    l2_devices,          \* the hosts of --hostnames
    l3_devices,          \* the hosts of --upstream
    vxlan,               \* NetworkConnector.vxlan
    i,                   \* position of the current device in the phase's host list
    remaining,           \* the number of records of parsed_data not yet processed
    connections,         \* NetworkConnector.connections: the hosts it holds a session of
    sessions,            \* the hosts with a session that is up and not yet closed
    attempted,           \* history: the hosts the current phase has passed to connect
    executed,            \* the commands the current probe has executed, with the verdict
    raised,              \* whether the last send_command of the probe raised
    output,              \* the last output of the probe, then the value it returned
    mac_addresses,       \* the MAC table
    entry,               \* the record of the MAC address table processed last
    prev_mac_addresses,  \* history: the MAC table before that record
    evpn_bindings,       \* the items of evpn_bindings not yet processed
    mac_to_ip,           \* the correlated records
    l3_entry,            \* the ARP record, or the EVPN item (mac, ip), processed last
    prev_mac_to_ip       \* history: the correlated records before that record

inputs == <<l2_devices, l3_devices, vxlan>>
net    == <<connections, sessions, attempted>>
probe  == <<executed, raised, output>>
l2     == <<mac_addresses, entry, prev_mac_addresses>>
l3     == <<evpn_bindings, mac_to_ip, l3_entry, prev_mac_to_ip>>

vars == <<pc, i, remaining, inputs, net, probe, l2, l3>>

\* the state in which main() calls collect_mac_addresses
Begin(l2_list, l3_list) ==
    /\ pc = "collect"
    /\ l2_devices = l2_list
    /\ l3_devices = l3_list
    /\ vxlan \in BOOLEAN
    /\ i = 1
    /\ remaining = 0
    /\ connections = {}
    /\ sessions = {}
    /\ attempted = <<>>
    /\ executed = <<>>
    /\ raised = FALSE
    /\ output = <<>>
    /\ mac_addresses = <<>>
    /\ entry = <<>>
    /\ prev_mac_addresses = <<>>
    /\ evpn_bindings = <<>>
    /\ mac_to_ip = <<>>
    /\ l3_entry = <<>>
    /\ prev_mac_to_ip = <<>>

\* main() with one L2 device and one L3 device
Init == Begin(SubSeq(L2Hosts, 1, 1), SubSeq(L3Hosts, 1, 1))

(***************************************************************************)
(* connect, disconnect_all, execute_command and the probes.                *)
(***************************************************************************)
\* connect with a connection error ending the loop over the devices
connect_AbortOnError(hostname, loop_pc, probe_pc) ==
    \E r \in ConnectResults :
        /\ attempted' = Append(attempted, hostname)
        /\ sessions' = IF r = "ok" THEN sessions \cup {hostname} ELSE sessions
        /\ connections' = IF r = "ok" THEN connections \cup {hostname}
                          ELSE connections
        /\ IF r = "ok"
           THEN pc' = probe_pc /\ i' = i
           ELSE pc' = loop_pc /\ i' = Len(l2_devices) + Len(l3_devices) + 1
        /\ executed' = <<>>
        /\ raised' = FALSE
        /\ output' = <<>>

\* connect(hostname): on "ok" the session is registered and the probe at
\* probe_pc starts; otherwise None is returned and the caller continues with
\* the next device at loop_pc
connect(hostname, loop_pc, probe_pc) ==
    \E r \in ConnectResults :
        /\ attempted' = Append(attempted, hostname)
        /\ sessions' = IF r = "ok" THEN sessions \cup {hostname} ELSE sessions
        /\ connections' = IF r = "ok" THEN connections \cup {hostname}
                          ELSE connections
        /\ IF r = "ok"
           THEN pc' = probe_pc /\ i' = i
           ELSE pc' = loop_pc /\ i' = i + 1
        /\ executed' = <<>>
        /\ raised' = FALSE
        /\ output' = <<>>

disconnect_all ==
    /\ sessions' = sessions \ connections
    /\ connections' = {}

\* execute_command: the output, or "" when send_command raises
execute_command(r) == IF r = Raised THEN <<>> ELSE r

\* the validity check each probe applies to the output of a candidate
IsValid(task, out) ==
    CASE task = "mac"  -> LooksLikeMacTable(out)
      [] task = "evpn" -> LooksLikeEvpn(out)
      [] task = "arp"  -> LooksLikeArpTable(out)

\* Probe with an exception of send_command ending the probe
Probe_AbortOnRaise(commands, results, task, returned_pc) ==
    IF Len(executed) < Len(commands)
    THEN \E r \in results :
            LET out   == IF r = Raised THEN <<>> ELSE r
                valid == IsValid(task, out)
            IN  /\ output' = out
                /\ raised' = (r = Raised)
                /\ executed' = Append(executed,
                                  [command |-> commands[Len(executed) + 1],
                                   valid   |-> valid])
                /\ pc' = IF valid \/ r = Raised THEN returned_pc ELSE pc
    ELSE /\ output' = <<>>
         /\ raised' = raised
         /\ executed' = executed
         /\ pc' = returned_pc

\* one turn of the loop of a probe over its candidate commands, or its end:
\* the next candidate is executed; an accepted output is returned, and so is
\* "" once every candidate was tried
Probe(commands, results, task, returned_pc) ==
    IF Len(executed) < Len(commands)
    THEN \E r \in results :
            LET out   == execute_command(r)
                valid == IsValid(task, out)
            IN  /\ output' = out
                /\ raised' = (r = Raised)
                /\ executed' = Append(executed,
                                  [command |-> commands[Len(executed) + 1],
                                   valid   |-> valid])
                /\ pc' = IF valid THEN returned_pc ELSE pc
    ELSE /\ output' = <<>>
         /\ raised' = raised
         /\ executed' = executed
         /\ pc' = returned_pc

\* the caller has the value the probe returned: the probe's locals are gone
ProbeOver ==
    /\ executed' = <<>>
    /\ raised' = FALSE
    /\ output' = <<>>

\* the caller passes to the next record, or after the last one to next_pc
NextRecord(left, next_pc) ==
    /\ remaining' = left
    /\ IF left = 0
       THEN pc' = next_pc /\ i' = i + 1
       ELSE pc' = pc /\ i' = i

(***************************************************************************)
(* collect_mac_addresses.                                                  *)
(***************************************************************************)
CollectConnect ==
    /\ pc = "collect"
    /\ i <= Len(l2_devices)
    /\ connect(l2_devices[i], "collect", "mac_probe")
    /\ UNCHANGED <<remaining, inputs, l2, l3>>

get_mac_address_table ==
    /\ pc = "mac_probe"
    /\ Probe(mac_commands(vxlan), SendResults, "mac", "mac_returned")
    /\ UNCHANGED <<i, remaining, inputs, net, l2, l3>>

\* the probe has returned: without output the device is skipped, else the
\* template engine parses it into up to MaxRecords records
CollectParse ==
    /\ pc = "mac_returned"
    /\ \E n \in 0..MaxRecords :
          /\ output = <<>> => n = 0
          /\ remaining' = n
          /\ IF n = 0
             THEN pc' = "collect" /\ i' = i + 1
             ELSE pc' = "mac_entries" /\ i' = i
    /\ ProbeOver
    /\ UNCHANGED <<inputs, net, l2, l3>>

\* one record of parsed_data
CollectEntry ==
    /\ pc = "mac_entries"
    /\ \E e \in MacRecords :
          /\ entry' = e
          /\ mac_addresses' = ProcessEntry(mac_addresses, e, l2_devices[i])
    /\ prev_mac_addresses' = mac_addresses
    /\ NextRecord(remaining - 1, "collect")
    /\ UNCHANGED <<inputs, net, probe, l3>>

\* the loop over the L2 devices is over: disconnect_all, save and return
CollectReturn ==
    /\ pc = "collect"
    /\ i > Len(l2_devices)
    /\ disconnect_all
    /\ pc' = "collected"
    /\ UNCHANGED <<i, remaining, inputs, attempted, probe, l2, l3>>

(***************************************************************************)
(* map_mac_to_ip.                                                          *)
(***************************************************************************)
\* main() calls map_mac_to_ip with the MAC table collect_mac_addresses returned
MainMap ==
    /\ pc = "collected"
    /\ pc' = "map"
    /\ i' = 1
    /\ attempted' = <<>>
    /\ UNCHANGED <<remaining, inputs, connections, sessions, probe, l2, l3>>

MapConnect ==
    /\ pc = "map"
    /\ i <= Len(l3_devices)
    /\ connect(l3_devices[i], "map", IF vxlan THEN "evpn_probe" ELSE "arp_probe")
    /\ UNCHANGED <<remaining, inputs, l2, l3>>

get_evpn_mac_ip_bindings ==
    /\ pc = "evpn_probe"
    /\ Probe(evpn_commands, EvpnSendResults, "evpn", "evpn_returned")
    /\ UNCHANGED <<i, remaining, inputs, net, l2, l3>>

\* the VXLAN loop passes to the next item of evpn_bindings, or after the last
\* one to connection.disconnect() and the next device
EvpnNext ==
    IF evpn_bindings' = <<>>
    THEN /\ sessions' = sessions \ {l3_devices[i]}
         /\ pc' = "map"
         /\ i' = i + 1
    ELSE /\ sessions' = sessions
         /\ pc' = "evpn_bindings"
         /\ i' = i

\* the probe has returned: without output the device is skipped, else the
\* output is parsed into bindings
EvpnParse ==
    /\ pc = "evpn_returned"
    /\ IF output = <<>>
       THEN /\ evpn_bindings' = <<>>
            /\ pc' = "map"
            /\ i' = i + 1
            /\ sessions' = sessions
       ELSE /\ evpn_bindings' = parse_evpn_output(output)
            /\ EvpnNext
    /\ ProbeOver
    /\ UNCHANGED <<remaining, inputs, connections, attempted, l2, mac_to_ip,
                   l3_entry, prev_mac_to_ip>>

\* one item of evpn_bindings
EvpnBinding ==
    /\ pc = "evpn_bindings"
    /\ l3_entry' = <<Head(evpn_bindings).mac, Head(evpn_bindings).ip>>
    /\ mac_to_ip' = Correlate(mac_to_ip, mac_addresses,
                              Head(evpn_bindings).mac, Head(evpn_bindings).ip)
    /\ prev_mac_to_ip' = mac_to_ip
    /\ evpn_bindings' = Tail(evpn_bindings)
    /\ EvpnNext
    /\ UNCHANGED <<remaining, inputs, connections, attempted, probe, l2>>

get_arp_table ==
    /\ pc = "arp_probe"
    /\ Probe(arp_commands, SendResults, "arp", "arp_returned")
    /\ UNCHANGED <<i, remaining, inputs, net, l2, l3>>

\* the probe has returned: without output, or without parsed records, the
\* device is skipped
ArpParse ==
    /\ pc = "arp_returned"
    /\ \E n \in 0..MaxRecords :
          /\ output = <<>> => n = 0
          /\ remaining' = n
          /\ IF n = 0
             THEN pc' = "map" /\ i' = i + 1
             ELSE pc' = "arp_entries" /\ i' = i
    /\ ProbeOver
    /\ UNCHANGED <<inputs, net, l2, l3>>

\* one record of parsed_data
ArpEntry ==
    /\ pc = "arp_entries"
    /\ \E e \in ArpRecords :
          /\ l3_entry' = e
          /\ mac_to_ip' = ProcessArpEntry(mac_to_ip, mac_addresses, e)
    /\ prev_mac_to_ip' = mac_to_ip
    /\ NextRecord(remaining - 1, "map")
    /\ UNCHANGED <<inputs, net, probe, l2, evpn_bindings>>

\* the loop over the L3 devices is over: return mac_to_ip
MapReturn ==
    /\ pc = "map"
    /\ i > Len(l3_devices)
    /\ pc' = "mapped"
    /\ UNCHANGED <<i, remaining, inputs, net, probe, l2, l3>>

(***************************************************************************)
(* Specifications.                                                         *)
(***************************************************************************)
Next ==
    \/ CollectConnect
    \/ get_mac_address_table
    \/ CollectParse
    \/ CollectEntry
    \/ CollectReturn
    \/ MainMap
    \/ MapConnect
    \/ get_evpn_mac_ip_bindings
    \/ EvpnParse
    \/ EvpnBinding
    \/ get_arp_table
    \/ ArpParse
    \/ ArpEntry
    \/ MapReturn

Spec == Init /\ [][Next]_vars

\* collect_mac_addresses alone, on two L2 devices
NextCollect ==
    \/ CollectConnect
    \/ get_mac_address_table
    \/ CollectParse
    \/ CollectEntry
    \/ CollectReturn

InitCollect == Begin(L2Hosts, L3Hosts)

SpecCollect == InitCollect /\ [][NextCollect]_vars

\* map_mac_to_ip alone, on two L3 devices: main() has called it with the MAC
\* table collect_mac_addresses built from two records of sw1, sw2 having
\* refused the connection
CollectedFirst == ProcessEntry(<<>>, Row7(<<"1","0">>, MacColon, Gi01), L2Hosts[1])

InitMap ==
    /\ pc = "map"
    /\ l2_devices = L2Hosts
    /\ l3_devices = L3Hosts
    /\ vxlan \in BOOLEAN
    /\ i = 1
    /\ remaining = 0
    /\ connections = {}
    /\ sessions = {}
    /\ attempted = <<>>
    /\ executed = <<>>
    /\ raised = FALSE
    /\ output = <<>>
    /\ mac_addresses = ProcessEntry(CollectedFirst, <<MacBare, Gi02>>, L2Hosts[1])
    /\ entry = <<MacBare, Gi02>>
    /\ prev_mac_addresses = CollectedFirst
    /\ evpn_bindings = <<>>
    /\ mac_to_ip = <<>>
    /\ l3_entry = <<>>
    /\ prev_mac_to_ip = <<>>

NextMap ==
    \/ MapConnect
    \/ get_evpn_mac_ip_bindings
    \/ EvpnParse
    \/ EvpnBinding
    \/ get_arp_table
    \/ ArpParse
    \/ ArpEntry
    \/ MapReturn

\* each phase alone, on two devices
InitPhases == InitCollect \/ InitMap

NextPhases == NextCollect \/ NextMap

SpecPhases == InitPhases /\ [][NextPhases]_vars

\* parse_evpn_output alone, on one line of up to MaxTokens tokens
TokRd == <<"1",":","1">>
EvpnTokens == {KwMacIp, MacEvpn, Ip9, TokRd, Gi02}

\* the line "Route Distinguisher 1:1 mac-ip aabb.bbcc.ccdd 10.0.0.9 Gi0/2"
EvpnSampleLine == EvpnRow(MacEvpn, Ip9)

\* the lines parse_evpn_output is called with
EvpnLines ==
    {Join(ts, " ") : ts \in UNION {[1..n -> EvpnTokens] : n \in 1..MaxTokens}}
        \cup {EvpnSampleLine}

InitEvpn ==
    /\ pc = "evpn_line"
    /\ l2_devices = SubSeq(L2Hosts, 1, 1)
    /\ l3_devices = SubSeq(L3Hosts, 1, 1)
    /\ vxlan = TRUE
    /\ i = 1
    /\ remaining = 0
    /\ connections = {}
    /\ sessions = {}
    /\ attempted = <<>>
    /\ executed = <<>>
    /\ raised = FALSE
    /\ output \in EvpnLines
    /\ mac_addresses = <<>>
    /\ entry = <<>>
    /\ prev_mac_addresses = <<>>
    /\ evpn_bindings = <<>>
    /\ mac_to_ip = <<>>
    /\ l3_entry = <<>>
    /\ prev_mac_to_ip = <<>>

\* evpn_bindings = self.parse_evpn_output(output)
ParseEvpn ==
    /\ pc = "evpn_line"
    /\ evpn_bindings' = parse_evpn_output(output)
    /\ pc' = "evpn_parsed"
    /\ UNCHANGED <<i, remaining, inputs, net, probe, l2, mac_to_ip, l3_entry,
                   prev_mac_to_ip>>

NextEvpn == ParseEvpn

SpecEvpn == InitEvpn /\ [][NextEvpn]_vars

(***************************************************************************)
(* Properties.                                                             *)
(***************************************************************************)
\* the comparison-canonical form of a MAC: separators stripped, lower case
Canon(mac) == ToLower(Remove(Remove(mac, ":"), "."))

\* a port or vlan that is present and not "unknown"
Known(x) == x # <<>> /\ x # Unknown

Range(seq) == {seq[n] : n \in 1..Len(seq)}

\* C1: once an entry of the MAC table exists, a record changes its port only
\* when the port was "unknown" and becomes a known one: the first known port
\* is kept for the rest of the run.
C1_FirstKnownPortWins ==
    entry # <<>> =>
        \A n \in 1..Len(prev_mac_addresses) :
            LET old == prev_mac_addresses[n]
                new == Get(mac_addresses, old.mac)
            IN  new.port # old.port => old.port = Unknown /\ new.port # Unknown

\* C2: a known vlan of an entry of the MAC table is never changed by a later
\* record of the same MAC, and never reverts to "unknown".
C2_KnownVlanKept ==
    entry # <<>> =>
        \A n \in 1..Len(prev_mac_addresses) :
            LET old == prev_mac_addresses[n]
                new == Get(mac_addresses, old.mac)
            IN  old.vlan # Unknown => new.vlan = old.vlan

\* C3: for a MAC already in the table, a record with a known port replaces an
\* "unknown" port, and a record without a port leaves a known port as it was.
C3_UnknownSupersededKnownKept ==
    entry # <<>> =>
        LET obs == EntryFields(entry)
            mac == ToLower(obs.mac)
        IN  (obs.mac # <<>> /\ HasKey(prev_mac_addresses, mac)) =>
                LET old == Get(prev_mac_addresses, mac)
                    new == Get(mac_addresses, mac)
                IN  /\ (old.port = Unknown /\ Known(obs.port)) => new.port = obs.port
                    /\ (old.port # Unknown /\ ~Known(obs.port)) => new.port = old.port

\* C3: a record with a known port has replaced the "unknown" port of its MAC
C3_Witness ==
    /\ entry # <<>>
    /\ EntryFields(entry).mac # <<>>
    /\ HasKey(prev_mac_addresses, ToLower(EntryFields(entry).mac))
    /\ Get(prev_mac_addresses, ToLower(EntryFields(entry).mac)).port = Unknown
    /\ Known(EntryFields(entry).port)
    /\ Get(mac_addresses, ToLower(EntryFields(entry).mac)).port = EntryFields(entry).port

\* C4: the MAC table collect_mac_addresses returns holds no two keys with the
\* same comparison-canonical form.
C4_OneEntryPerCanonicalMac ==
    pc = "collected" =>
        \A m, n \in 1..Len(mac_addresses) :
            m # n => Canon(mac_addresses[m].mac) # Canon(mac_addresses[n].mac)

\* the binding (mac, ip) map_mac_to_ip read from the record it processed last
Binding ==
    IF vxlan THEN [mac |-> l3_entry[1], ip |-> l3_entry[2]] ELSE ArpFields(l3_entry)

\* C5: mac_to_ip holds at most one record per comparison-canonical MAC; every
\* record's MAC is a key of the MAC table, and a record is written only for
\* the canonical MAC of the binding just processed; a binding that matches no
\* key of the MAC table writes nothing.
C5_OneRecordPerMatchedMac ==
    /\ \A m, n \in 1..Len(mac_to_ip) :
           m # n => Canon(mac_to_ip[m].mac) # Canon(mac_to_ip[n].mac)
    /\ \A n \in 1..Len(mac_to_ip) : HasKey(mac_addresses, mac_to_ip[n].mac)
    /\ l3_entry # <<>> =>
           /\ \A n \in 1..Len(mac_to_ip) :
                  (n > Len(prev_mac_to_ip) \/ mac_to_ip[n] # prev_mac_to_ip[n]) =>
                      /\ Binding.mac # <<>>
                      /\ Canon(mac_to_ip[n].mac) = Canon(Binding.mac)
           /\ (\A k \in Keys(mac_addresses) : Canon(k) # Canon(Binding.mac)) =>
                  mac_to_ip = prev_mac_to_ip

\* C5: the MAC table holds two keys of one canonical MAC, a binding of that
\* MAC was processed, and mac_to_ip holds a single record
C5_Witness ==
    /\ Len(mac_addresses) = 2
    /\ Canon(mac_addresses[1].mac) = Canon(mac_addresses[2].mac)
    /\ l3_entry # <<>>
    /\ Canon(Binding.mac) = Canon(mac_addresses[1].mac)
    /\ Len(mac_to_ip) = 1
    /\ prev_mac_to_ip = <<>>

\* C6: a correlated record keeps the IP of the first binding of its MAC; later
\* bindings of the same MAC do not change it.
C6_FirstBindingWins ==
    l3_entry # <<>> =>
        \A n \in 1..Len(prev_mac_to_ip) :
            Get(mac_to_ip, prev_mac_to_ip[n].mac).ip = prev_mac_to_ip[n].ip

\* C7: when a phase returns, no session opened in that phase is still open.
C7_SessionsReleased ==
    /\ pc = "collected" => sessions \cap Range(l2_devices) = {}
    /\ pc = "mapped" => sessions \cap Range(l3_devices) = {}

\* the probe that is running or has just returned: its commands and its check
Probing   == pc \in {"mac_probe", "evpn_probe", "arp_probe"}
Returned  == pc \in {"mac_returned", "evpn_returned", "arp_returned"}
Commands ==
    IF pc \in {"mac_probe", "mac_returned"} THEN mac_commands(vxlan)
    ELSE IF pc \in {"evpn_probe", "evpn_returned"} THEN evpn_commands
    ELSE arp_commands
Keywords ==
    IF pc \in {"mac_probe", "mac_returned"} THEN {KwMac, KwAddress, KwVlan}
    ELSE IF pc \in {"evpn_probe", "evpn_returned"} THEN {KwMac, KwEvpn, KwBgp}
    ELSE {KwIp, KwAddress, KwMac, KwAge, KwInterface}

\* C8: a probe executes its candidates in list order; it returns the output
\* of the first accepted one and executes none after it; a candidate that
\* raises counts as rejected and the next one is tried; when none is accepted
\* the probe returns the empty output.
C8_ProbeFirstAccepted ==
    (Probing \/ Returned) =>
        /\ Len(executed) <= Len(Commands)
        /\ \A k \in 1..Len(executed) : executed[k].command = Commands[k]
        /\ \A k \in 1..(Len(executed) - 1) : ~executed[k].valid
        /\ (executed # <<>> /\ raised) => ~executed[Len(executed)].valid
        /\ (Probing /\ executed # <<>>) => ~executed[Len(executed)].valid
        /\ Returned =>
              IF output # <<>>
              THEN /\ executed[Len(executed)].valid
                   /\ Len(output) > MinOutputLen
                   /\ \E kw \in Keywords : Contains(ToLower(output), kw)
              ELSE /\ Len(executed) = Len(Commands)
                   /\ \A k \in 1..Len(executed) : ~executed[k].valid

\* C8: a probe has returned an accepted output after a rejected candidate
C8_Witness ==
    /\ Returned
    /\ Len(executed) >= 2
    /\ output # <<>>
    /\ executed[Len(executed)].valid

\* C9: an output is accepted iff it is longer than 100 characters and holds,
\* in any case, a keyword of the task; an output of 100 characters or less is
\* rejected whatever it holds.
C9_ClassifierLengthAndKeyword ==
    ((Probing \/ (Returned /\ output # <<>>)) /\ executed # <<>>) =>
        /\ executed[Len(executed)].valid <=>
              (Len(output) >= 101 /\ \E kw \in Keywords : Contains(ToLower(output), kw))
        /\ Len(output) <= 100 => ~executed[Len(executed)].valid

\* C9: an output of 50 characters that holds a keyword has been rejected
C9_Witness ==
    /\ Probing
    /\ executed # <<>>
    /\ Len(output) = 50
    /\ Contains(ToLower(output), KwMac)
    /\ ~executed[Len(executed)].valid

\* C10: the L2 record ("1", "aabb.ccdd.eeff", "dynamic", "Gi0/1") and the ARP
\* record ("10.0.0.5", "00", "aabb.ccdd.eeff") give exactly one correlated
\* record, with mac "aabb.ccdd.eeff", ip "10.0.0.5", port "Gi0/1", vlan "1".
C10_EndToEnd ==
    ( /\ pc = "mapped"
      /\ ~vxlan
      /\ entry = << <<"1">>, MacDot, Dynamic, Gi01 >>
      /\ prev_mac_addresses = <<>>
      /\ l3_entry = << Ip5, <<"0","0">>, MacDot >>
      /\ prev_mac_to_ip = <<>> ) =>
        /\ Len(mac_to_ip) = 1
        /\ mac_to_ip[1].mac = MacDot
        /\ mac_to_ip[1].ip = Ip5
        /\ mac_to_ip[1].port = Gi01
        /\ mac_to_ip[1].vlan = <<"1">>

\* the whitespace-delimited tokens of a line
Tokens(line) == Split(line, {" ", "\t"})

\* the positions of the tokens within 3 tokens before or after position k
Window(ts, k) == {j \in 1..Len(ts) : k - 3 <= j /\ j <= k + 3}

\* the positions of the tokens that hold ':' or '.' and have a valid IPv4
\* address in their window
Candidates(ts) ==
    {k \in 1..Len(ts) :
        /\ HasChar(ts[k], Colon) \/ HasChar(ts[k], Dot)
        /\ \E j \in Window(ts, k) : is_valid_ip(ts[j])}

\* the first valid IPv4 address in the window of position k
WindowIp(ts, k) ==
    ts[CHOOSE j \in Window(ts, k) :
          /\ is_valid_ip(ts[j])
          /\ \A m \in Window(ts, k) : is_valid_ip(ts[m]) => j <= m]

\* C11 as stated: on the line "Route Distinguisher 1:1 mac-ip aabb.bbcc.ccdd
\* 10.0.0.9 Gi0/2" the binding aabb.bbcc.ccdd -> 10.0.0.9 is found, and on a
\* line that holds "mac" the first token with an IPv4 address in its window
\* is the one binding recorded: the scan of the line stops there.
C11_ScanStopsAtFirstBinding ==
    pc = "evpn_parsed" =>
        LET ts == Tokens(output)
        IN  /\ output = EvpnSampleLine =>
                  /\ HasKey(evpn_bindings, MacEvpn)
                  /\ Get(evpn_bindings, MacEvpn).ip = Ip9
            /\ Contains(ToLower(output), KwMac) =>
                  IF Candidates(ts) = {}
                  THEN evpn_bindings = <<>>
                  ELSE LET k == CHOOSE k \in Candidates(ts) :
                                    \A m \in Candidates(ts) : k <= m
                       IN  evpn_bindings =
                               << [mac |-> ToLower(ts[k]), ip |-> WindowIp(ts, k)] >>

\* C11, amended: on the line "Route Distinguisher 1:1 mac-ip aabb.bbcc.ccdd
\* 10.0.0.9 Gi0/2" the binding aabb.bbcc.ccdd -> 10.0.0.9 is found; on a line
\* that holds "mac" every token that holds ':' or '.' and has an IPv4 address
\* within 3 tokens before or after it is recorded, lower-cased, with the first
\* such address of its window (the last occurrence of a token deciding); the
\* scan goes on to the end of the line; other lines give no binding.
C11_EveryTokenInWindowBound ==
    pc = "evpn_parsed" =>
        LET ts == Tokens(output)
        IN  /\ output = EvpnSampleLine =>
                  /\ HasKey(evpn_bindings, MacEvpn)
                  /\ Get(evpn_bindings, MacEvpn).ip = Ip9
            /\ Contains(ToLower(output), KwMac) =>
                  /\ Keys(evpn_bindings) = {ToLower(ts[k]) : k \in Candidates(ts)}
                  /\ \A k \in Candidates(ts) :
                        (\A m \in Candidates(ts) :
                            ToLower(ts[m]) = ToLower(ts[k]) => m <= k) =>
                        Get(evpn_bindings, ToLower(ts[k])).ip = WindowIp(ts, k)
            /\ ~Contains(ToLower(output), KwMac) => evpn_bindings = <<>>

\* C11: the sample line was parsed and gave three bindings, that of
\* aabb.bbcc.ccdd among them
C11_Witness ==
    /\ pc = "evpn_parsed"
    /\ output = EvpnSampleLine
    /\ Len(evpn_bindings) = 3
    /\ HasKey(evpn_bindings, MacEvpn)
    /\ HasKey(evpn_bindings, TokRd)

\* the host list of the phase that is running or has just returned
PhaseDevices ==
    IF pc \in {"collect", "mac_probe", "mac_returned", "mac_entries", "collected"}
    THEN l2_devices
    ELSE l3_devices

\* this step is a connect() that returned None
ConnectFailed ==
    /\ Len(attempted') = Len(attempted) + 1
    /\ attempted'[Len(attempted')] \notin sessions'

\* this step is the caller finding that the probe returned no output
ProbeExhausted == Returned /\ output = <<>>

\* C12: a phase passes its devices to connect one at a time in list order;
\* a device whose connection fails (timeout, authentication, other) or whose
\* probe is exhausted leaves the entries collected so far as they are and
\* adds none, and the phase goes on with the next device: when the phase
\* returns every device of the list was attempted.
C12_FailedDeviceSkipped ==
    /\ [](/\ Len(attempted) <= Len(PhaseDevices)
          /\ attempted = SubSeq(PhaseDevices, 1, Len(attempted))
          /\ pc \in {"collect", "map"} => Len(attempted) = i - 1
          /\ (Probing \/ Returned \/ pc \in {"mac_entries", "evpn_bindings", "arp_entries"})
                => Len(attempted) = i
          /\ pc \in {"collected", "mapped"} => attempted = PhaseDevices)
    /\ [][(ConnectFailed \/ ProbeExhausted) =>
              /\ mac_addresses' = mac_addresses
              /\ mac_to_ip' = mac_to_ip
              /\ i' = i + 1
              /\ pc' \in {"collect", "map"}]_vars

\* C12: the connection to sw1 failed, sw2 was attempted after it and its
\* records are in the MAC table
C12_Witness ==
    /\ pc = "collect"
    /\ attempted = L2Hosts
    /\ connections = {L2Hosts[2]}
    /\ mac_addresses # <<>>

\* C13: every correlated record is keyed by a MAC string of the MAC table and
\* carries the port, vlan and device of that entry; the record a binding has
\* just written carries the binding's IP.
C13_RecordFromTableEntry ==
    /\ \A n \in 1..Len(mac_to_ip) :
          /\ HasKey(mac_addresses, mac_to_ip[n].mac)
          /\ mac_to_ip[n].port = Get(mac_addresses, mac_to_ip[n].mac).port
          /\ mac_to_ip[n].vlan = Get(mac_addresses, mac_to_ip[n].mac).vlan
          /\ mac_to_ip[n].device = Get(mac_addresses, mac_to_ip[n].mac).device
    /\ l3_entry # <<>> =>
          \A n \in 1..Len(mac_to_ip) :
              (n > Len(prev_mac_to_ip) \/ mac_to_ip[n] # prev_mac_to_ip[n]) =>
                  mac_to_ip[n].ip = Binding.ip

\* C13: a binding that spells the MAC otherwise than the MAC table has
\* written a record
C13_Witness ==
    /\ l3_entry # <<>>
    /\ Len(mac_to_ip) = Len(prev_mac_to_ip) + 1
    /\ mac_to_ip[Len(mac_to_ip)].mac # Binding.mac
    /\ Canon(mac_to_ip[Len(mac_to_ip)].mac) = Canon(Binding.mac)
    /\ mac_to_ip[Len(mac_to_ip)].ip = Binding.ip

\* C14: within one probe no command string is executed twice.
C14_NoCommandTwice ==
    (Probing \/ Returned) =>
        \A m, n \in 1..Len(executed) :
            m # n => executed[m].command # executed[n].command

\* the positions of the fields of a record that are MAC candidates
MacCandidates(rec) ==
    {k \in 1..Len(rec) :
        \/ HasChar(rec[k], ":")
        \/ HasChar(rec[k], ".")
        \/ /\ Len(rec[k]) \in {12, 14, 17}
           /\ \A c \in Range(rec[k]) : c \in HexOrSep}

\* the positions, other than k, of the fields of a record that look like a port
PortCandidates(rec, k) ==
    {j \in 1..Len(rec) :
        /\ j # k
        /\ ToLower(rec[j]) \notin ReservedWords
        /\ \E prefix \in PortPrefixes : Contains(ToLower(rec[j]), prefix)}

\* C15: for a record of fewer than 7 fields the MAC is the leftmost field that
\* holds ':' or '.' or has 12, 14 or 17 characters, all hex digits or
\* separators, and the port is another field that holds an interface prefix
\* and is no reserved word; ("1", "aabb.ccdd.eeff", "dynamic", "Gi1/0/1") gives
\* the MAC of index 1 and the port of index 3; a record without a MAC
\* candidate changes nothing and the next record is still processed.
C15_PositionalFallback ==
    (entry # <<>> /\ Len(entry) < 7) =>
        IF MacCandidates(entry) = {}
        THEN /\ mac_addresses = prev_mac_addresses
             /\ remaining > 0 => pc = "mac_entries"
        ELSE LET k   == CHOOSE k \in MacCandidates(entry) :
                            \A m \in MacCandidates(entry) : k <= m
                 mac == ToLower(entry[k])
             IN  /\ HasKey(mac_addresses, mac)
                 /\ PortCandidates(entry, k) # {} =>
                       \E j \in PortCandidates(entry, k) :
                           Get(mac_addresses, mac).port = entry[j]
                 /\ (PortCandidates(entry, k) = {} /\ ~HasKey(prev_mac_addresses, mac)) =>
                       Get(mac_addresses, mac).port = Unknown
                 /\ entry = << <<"1">>, MacDot, Dynamic, Gi101 >> =>
                       /\ k = 2
                       /\ Get(mac_addresses, MacDot).port = entry[4]

\* C15: the record ("1", "aabb.ccdd.eeff", "dynamic", "Gi1/0/1") was the first
\* to give an entry, stored with the port of its index 3
C15_Witness ==
    /\ entry = << <<"1">>, MacDot, Dynamic, Gi101 >>
    /\ prev_mac_addresses = <<>>
    /\ remaining = 0
    /\ Get(mac_addresses, MacDot).port = Gi101

====
